---- MODULE Spec2Model ----
(***************************************************************************)
(* Model of parse_daily_log_rtf.py: the sanitizer clean_text, the header   *)
(* recognizer parse_header with its vocabulary tables, the line loop of    *)
(* parse_all and the run logic of main.                                    *)
(*                                                                         *)
(* A Python str is modelled as a sequence of Unicode code points           *)
(* (integers), so that every character-level step of the source (regex     *)
(* classes, lower(), strip(), split(), replace(), strftime) is computed    *)
(* and not assumed.  The character predicates below are exact on Latin-1   *)
(* (code points 0..255), on the surrogate block and on the two marker      *)
(* glyphs; the model never builds a string outside that domain.            *)
(***************************************************************************)
EXTENDS Integers, Sequences, FiniteSets, TLC

VARIABLES
    text,       \* parse_all: the input, already split into lines (text.splitlines())
    idx,        \* parse_all: index of the next line the for loop will take
    cur_date,   \* parse_all: None or Some(date), a date being [year, month, day]
    cur_day,    \* parse_all: None or Some(canonical weekday name)
    rows,       \* parse_all: the list of rows built so far
    srcs,       \* history: srcs[k] is the index of the line that produced rows[k]
    pc,         \* main: "parsing", "parsed", "nothing_parsed", "saved", "raised"
    printed,    \* main: the messages printed so far
    excel,      \* main: None, or Some(the table handed to DataFrame.to_excel)
    fin,        \* function specifications: the argument of the call
    fout,       \* function specifications: the result(s) of the call
    fstep       \* function specifications: "in" before the call, then its stage

vars == <<text, idx, cur_date, cur_day, rows, srcs, pc, printed, excel, fin, fout, fstep>>

\* A nullable value: None is the empty set, a present value v is {v}.
None == {}
Some(v) == {v}
The(o) == CHOOSE v \in o : TRUE

\* Idiom used below:  The({F(x) : x \in {e}})  is F(e) with e evaluated once,
\* as an assignment  x = e  followed by uses of x is in the source.

\* ------------------------------------------------------------------------
\* Characters and literals
\* ------------------------------------------------------------------------

Lowercase == <<"a","b","c","d","e","f","g","h","i","j","k","l","m",
               "n","o","p","q","r","s","t","u","v","w","x","y","z">>
Uppercase == <<"A","B","C","D","E","F","G","H","I","J","K","L","M",
               "N","O","P","Q","R","S","T","U","V","W","X","Y","Z">>
DigitChars == <<"0","1","2","3","4","5","6","7","8","9">>

\* ord() of the ASCII characters the literals of the source and the sample
\* inputs are written with.
Ord(ch) ==
    IF \E i \in 1..26 : Lowercase[i] = ch THEN 96 + (CHOOSE i \in 1..26 : Lowercase[i] = ch)
    ELSE IF \E i \in 1..26 : Uppercase[i] = ch THEN 64 + (CHOOSE i \in 1..26 : Uppercase[i] = ch)
    ELSE IF \E i \in 1..10 : DigitChars[i] = ch THEN 47 + (CHOOSE i \in 1..10 : DigitChars[i] = ch)
    ELSE CASE ch = " " -> 32
           [] ch = "'" -> 39
           [] ch = "," -> 44
           [] ch = "-" -> 45
           [] ch = "." -> 46
           [] ch = "/" -> 47
           [] ch = ">" -> 62

\* A string literal, written as a tuple of one-character strings.
Str(t) == [i \in 1..Len(t) |-> Ord(t[i])]

\* The two status marker glyphs: U+1F7E1 (yellow circle) and U+274C (cross mark).
YELLOW == 128993
CROSS == 10060

Comma == Ord(",")
Period == Ord(".")
Slash == Ord("/")

Min(S) == CHOOSE x \in S : \A y \in S : x <= y
Max(S) == CHOOSE x \in S : \A y \in S : y <= x

\* re: [\x00-\x08\x0B\x0C\x0E-\x1F]
IsAsciiControl(c) == c \in 0..8 \/ c \in {11, 12} \/ c \in 14..31

\* re: [\uD800-\uDFFF]
IsSurrogate(c) == c \in 55296..57343

\* str.isprintable() of one character: on Latin-1 everything but the C0/C1
\* controls, DEL, NO-BREAK SPACE and SOFT HYPHEN; both marker glyphs are
\* printable (category So).
IsPrintable(c) ==
    \/ c \in 32..126
    \/ c \in 161..172
    \/ c \in 174..255
    \/ c \in {YELLOW, CROSS}

\* Python whitespace (str.strip() with no argument, re \s) on Latin-1.
IsSpace(c) == c \in 9..13 \/ c \in 28..32 \/ c \in {133, 160}

\* re: \d on Latin-1.
IsDigit(c) == c \in 48..57

\* re: [A-Za-z\u00C0-\u00FF]
IsHeaderAlpha(c) == c \in 65..90 \/ c \in 97..122 \/ c \in 192..255

\* str.lower() of one character, on Latin-1.
LowerChar(c) ==
    IF c \in 65..90 \/ c \in 192..214 \/ c \in 216..222 THEN c + 32 ELSE c

Lower(s) == [i \in 1..Len(s) |-> LowerChar(s[i])]

\* str.strip()
Strip(s) ==
    LET keep == {i \in 1..Len(s) : ~IsSpace(s[i])}
    IN  IF keep = {} THEN <<>> ELSE SubSeq(s, Min(keep), Max(keep))

RemoveAsciiControl(s) == SelectSeq(s, LAMBDA c : ~IsAsciiControl(c))
RemoveSurrogates(s) == SelectSeq(s, LAMBDA c : ~IsSurrogate(c))
KeepPrintable(s) == SelectSeq(s, LAMBDA c : IsPrintable(c))

\* Variant of clean_text that trims before it removes characters.
clean_text_StripFirst(s) ==
    KeepPrintable(RemoveSurrogates(RemoveAsciiControl(Strip(s))))

\* clean_text for a str argument.
clean_text(s) ==
    The({Strip(t) : t \in {KeepPrintable(RemoveSurrogates(RemoveAsciiControl(s)))}})

\* ------------------------------------------------------------------------
\* Vocabulary tables: a dict is the set of its <<key, value>> items
\* ------------------------------------------------------------------------

\* "k in d"
HasKey(d, k) == \E e \in d : e[1] = k

\* d[k]
Get(d, k) == (CHOOSE e \in d : e[1] = k)[2]

day_map ==
    { <<Str(<<"s","e","n","i","n">>), Str(<<"M","o","n","d","a","y">>)>>,
      <<Str(<<"s","e","l","a","s","a">>), Str(<<"T","u","e","s","d","a","y">>)>>,
      <<Str(<<"s","e","l","e","s","a">>), Str(<<"T","u","e","s","d","a","y">>)>>,
      <<Str(<<"r","a","b","u">>), Str(<<"W","e","d","n","e","s","d","a","y">>)>>,
      <<Str(<<"k","a","m","i","s">>), Str(<<"T","h","u","r","s","d","a","y">>)>>,
      <<Str(<<"k","a","m","i">>), Str(<<"T","h","u","r","s","d","a","y">>)>>,
      <<Str(<<"j","u","m","a","t">>), Str(<<"F","r","i","d","a","y">>)>>,
      <<Str(<<"j","u","m","'","a","t">>), Str(<<"F","r","i","d","a","y">>)>>,
      <<Str(<<"s","a","b","t","u">>), Str(<<"S","a","t","u","r","d","a","y">>)>>,
      <<Str(<<"m","i","n","g","g","u">>), Str(<<"S","u","n","d","a","y">>)>> }

month_map ==
    { <<Str(<<"j","a","n","u","a","r","i">>), 1>>,
      <<Str(<<"j","a","n","u","a","r","y">>), 1>>,
      <<Str(<<"j","a","n">>), 1>>,
      <<Str(<<"f","e","b","r","u","a","r","i">>), 2>>,
      <<Str(<<"f","e","b","r","u","a","r","y">>), 2>>,
      <<Str(<<"f","e","b">>), 2>>,
      <<Str(<<"m","a","r","e","t">>), 3>>,
      <<Str(<<"m","a","r","c","h">>), 3>>,
      <<Str(<<"m","a","r">>), 3>>,
      <<Str(<<"a","p","r","i","l">>), 4>>,
      <<Str(<<"a","p","r">>), 4>>,
      <<Str(<<"m","e","i">>), 5>>,
      <<Str(<<"m","a","y">>), 5>>,
      <<Str(<<"j","u","n","i">>), 6>>,
      <<Str(<<"j","u","n","e">>), 6>>,
      <<Str(<<"j","u","n">>), 6>>,
      <<Str(<<"j","u","l","i">>), 7>>,
      <<Str(<<"j","u","l","y">>), 7>>,
      <<Str(<<"j","u","l">>), 7>>,
      <<Str(<<"a","g","u","s","t","u","s">>), 8>>,
      <<Str(<<"a","u","g","u","s","t">>), 8>>,
      <<Str(<<"a","u","g">>), 8>>,
      <<Str(<<"s","e","p","t","e","m","b","e","r">>), 9>>,
      <<Str(<<"s","e","p","t">>), 9>>,
      <<Str(<<"s","e","p">>), 9>>,
      <<Str(<<"o","k","t","o","b","e","r">>), 10>>,
      <<Str(<<"o","c","t","o","b","e","r">>), 10>>,
      <<Str(<<"o","c","t">>), 10>>,
      <<Str(<<"n","o","v","e","m","b","e","r">>), 11>>,
      <<Str(<<"n","o","v">>), 11>>,
      <<Str(<<"d","e","s","e","m","b","e","r">>), 12>>,
      <<Str(<<"d","e","c","e","m","b","e","r">>), 12>>,
      <<Str(<<"d","e","c">>), 12>> }

\* ------------------------------------------------------------------------
\* Header recognizer
\* ------------------------------------------------------------------------

\* The character classes the two regular expressions scan with.
InClass(cls, c) ==
    CASE cls = "space" -> IsSpace(c)
      [] cls = "digit" -> IsDigit(c)
      [] cls = "alpha" -> IsHeaderAlpha(c)

\* The first index >= i of s whose character is not in class cls (Len(s)+1
\* when there is none): the end of a greedy run  [cls]*  that starts at i.
\* The classes header_re and the numbering regex put next to each other are
\* pairwise disjoint, so the greedy run is the only run a match can use.
Span(s, i, cls) ==
    LET stops == {j \in i..Len(s) : ~InClass(cls, s[j])}
    IN  IF stops = {} THEN Len(s) + 1 ELSE Min(stops)

NoMatch == [matched |-> FALSE]

\* header_re.match(s):
\*   ^\s*([A-Za-z\u00C0-\u00FF]+)[,]?\s+(\d{1,2})\s+([A-Za-z\u00C0-\u00FF]+)\s+(\d{4})\s*$
header_re(s) ==
    LET a0 == Span(s, 1, "space")
        a1 == Span(s, a0, "alpha")
        a2 == IF a1 <= Len(s) /\ s[a1] = Comma THEN a1 + 1 ELSE a1
        a3 == Span(s, a2, "space")
        a4 == Span(s, a3, "digit")
        a5 == Span(s, a4, "space")
        a6 == Span(s, a5, "alpha")
        a7 == Span(s, a6, "space")
        a8 == Span(s, a7, "digit")
        a9 == Span(s, a8, "space")
    IN  IF /\ a1 > a0
           /\ a3 > a2
           /\ a4 - a3 \in {1, 2}
           /\ a5 > a4
           /\ a6 > a5
           /\ a7 > a6
           /\ a8 - a7 = 4
           /\ a9 = Len(s) + 1
        THEN [matched |-> TRUE,
              dname   |-> SubSeq(s, a0, a1 - 1),
              d_str   |-> SubSeq(s, a3, a4 - 1),
              mon_str |-> SubSeq(s, a5, a6 - 1),
              y_str   |-> SubSeq(s, a7, a8 - 1)]
        ELSE NoMatch

\* int() of a string of ASCII digits.
RECURSIVE ToInt(_)
ToInt(s) ==
    IF s = <<>> THEN 0
    ELSE 10 * ToInt(SubSeq(s, 1, Len(s) - 1)) + (s[Len(s)] - 48)

IsLeap(y) == (y % 4 = 0 /\ y % 100 # 0) \/ y % 400 = 0

DaysInMonth(y, m) ==
    IF m = 2 THEN (IF IsLeap(y) THEN 29 ELSE 28)
    ELSE IF m \in {4, 6, 9, 11} THEN 30 ELSE 31

\* datetime.date(y, m, d) raises ValueError unless this holds.
ValidDate(y, m, d) ==
    /\ y \in 1..9999
    /\ m \in 1..12
    /\ d \in 1..DaysInMonth(y, m)

\* Variant of ResolveHeader in which a token missing from its table is an
\* error (a KeyError of day_map[dname] / month_map[mon_str]) and not None.
ResolveHeader_Strict(m) ==
    LET dname   == Lower(m.dname)
        mon_str == Lower(m.mon_str)
    IN  IF ~HasKey(day_map, dname) \/ ~HasKey(month_map, mon_str) THEN [kind |-> "raise"]
        ELSE LET y == ToInt(m.y_str)
                 d == ToInt(m.d_str)
             IN  IF ValidDate(y, Get(month_map, mon_str), d)
                 THEN [kind |-> "hdr",
                       dt   |-> [year |-> y, month |-> Get(month_map, mon_str), day |-> d],
                       day  |-> Get(day_map, dname)]
                 ELSE [kind |-> "raise"]

\* parse_header after a successful header_re match m: "none" for None,
\* "raise" for the ValueError of date(...), "hdr" for (dt, day_map[dname]).
ResolveHeader(m) ==
    LET dname   == Lower(m.dname)
        mon_str == Lower(m.mon_str)
    IN  IF ~HasKey(day_map, dname) THEN [kind |-> "none"]
        ELSE IF ~HasKey(month_map, mon_str) THEN [kind |-> "none"]
        ELSE LET y == ToInt(m.y_str)
                 d == ToInt(m.d_str)
             IN  IF ValidDate(y, Get(month_map, mon_str), d)
                 THEN [kind |-> "hdr",
                       dt   |-> [year |-> y, month |-> Get(month_map, mon_str), day |-> d],
                       day  |-> Get(day_map, dname)]
                 ELSE [kind |-> "raise"]

\* parse_header(line)
parse_header(line) ==
    The({IF m.matched THEN ResolveHeader(m) ELSE [kind |-> "none"] :
            m \in {header_re(s) : s \in {Strip(line)}}})

\* ------------------------------------------------------------------------
\* Entry extraction (the body of the loop of parse_all after the header test)
\* ------------------------------------------------------------------------

\* str(n) for n >= 0.
RECURSIVE Decimal(_)
Decimal(n) == IF n < 10 THEN <<48 + n>> ELSE Append(Decimal(n \div 10), 48 + (n % 10))

Pad2(n) == <<48 + (n \div 10), 48 + (n % 10)>>

\* dt.strftime("%m/%d/%Y"); glibc does not pad %Y.
strftime(dt) ==
    Pad2(dt.month) \o <<Slash>> \o Pad2(dt.day) \o <<Slash>> \o Decimal(dt.year)

\* re.match(r'^\s*\d+[\.,]\s*(.*)$', line); content = m.group(1) if m else line
StripNumbering(line) ==
    LET a0 == Span(line, 1, "space")
        a1 == Span(line, a0, "digit")
        a2 == a1 + 1
        a3 == Span(line, a2, "space")
    IN  IF a1 > a0 /\ a1 <= Len(line) /\ line[a1] \in {Period, Comma}
        THEN SubSeq(line, a3, Len(line))
        ELSE line

\* The indices at which the substring d occurs in s.
Occurrences(s, d) ==
    {k \in 1..(Len(s) - Len(d) + 1) : SubSeq(s, k, k + Len(d) - 1) = d}

\* "d in s"
Contains(s, d) == Occurrences(s, d) # {}

\* s.split(d, 1) when d occurs in s.
SplitFirst(s, d) ==
    LET k == Min(Occurrences(s, d))
    IN  <<SubSeq(s, 1, k - 1), SubSeq(s, k + Len(d), Len(s))>>

Arrow == Str(<<"-", ">">>)
SpaceDash == Str(<<" ", "-", " ">>)

\* Variant of the split that tests " - " before "->".
SplitProjectIssue_DashFirst(content) ==
    IF Contains(content, SpaceDash) THEN SplitFirst(content, SpaceDash)
    ELSE IF Contains(content, Arrow) THEN SplitFirst(content, Arrow)
    ELSE <<(<<>>), content>>

\* The project/issue split: <<p, i>> before cleaning.
SplitProjectIssue(content) ==
    IF Contains(content, Arrow) THEN SplitFirst(content, Arrow)
    ELSE IF Contains(content, SpaceDash) THEN SplitFirst(content, SpaceDash)
    ELSE <<(<<>>), content>>

HasMarker(s) == \E k \in 1..Len(s) : s[k] \in {YELLOW, CROSS}

\* i.replace(YELLOW, "").replace(CROSS, "")
RemoveMarkers(s) == SelectSeq(SelectSeq(s, LAMBDA c : c # YELLOW), LAMBDA c : c # CROSS)

Other == Str(<<"O","t","h","e","r">>)

InProgress == Str(<<"I","n"," ","P","r","o","g","r","e","s","s">>)
Done == Str(<<"D","o","n","e">>)

\* Variant of StatusOf that tests the yellow circle only.
StatusOf_YellowOnly(i) ==
    IF \E k \in 1..Len(i) : i[k] = YELLOW THEN InProgress ELSE Done

\* "In Progress" if a marker is in the cleaned issue half, else "Done".
StatusOf(i) == IF HasMarker(i) THEN InProgress ELSE Done

\* The row built from the cleaned halves p and i under the header (dt, day).
Row(p, i, dt, day) ==
    [Date    |-> strftime(dt),
     Day     |-> day,
     Project |-> IF Strip(p) = <<>> THEN Other ELSE p,
     Issue   |-> Strip(RemoveMarkers(i)),
     Status  |-> StatusOf(i)]

\* The row appended for a non-empty content under the header (dt, day).
MakeRow(content, dt, day) ==
    The({Row(h[1], h[2], dt, day) :
            h \in {<<clean_text(pi[1]), clean_text(pi[2])>> :
                      pi \in {SplitProjectIssue(content)}}})

\* ------------------------------------------------------------------------
\* parse_all: one action per iteration of the for loop, by the branch taken
\* ------------------------------------------------------------------------

\* Sample input lines of the run model.
HeaderA      == Str(<<"R","a","b","u",","," ","1","0"," ","D","e","c","e","m","b","e","r"," ","2","0","2","5">>)
HeaderB      == Str(<<"k","a","m","i"," ","2","9"," ","f","e","b"," ","2","0","2","4">>)
HeaderBadDay == Str(<<"S","e","n","i","n",","," ","3","1"," ","n","o","v"," ","2","0","2","5">>)
UnknownDay   == Str(<<"F","o","o"," ","1","0"," ","D","e","c"," ","2","0","2","5">>)
UnknownMonth == Str(<<"R","a","b","u"," ","1","0"," ","F","o","o"," ","2","0","2","5">>)
ApostropheDay == Str(<<"J","u","m","'","a","t",","," ","1","2"," ","D","e","c"," ","2","0","2","5">>)
EntryMarked  == Str(<<"1","."," ","B","E"," ","-",">"," ","F","i","x"," ">>) \o <<YELLOW>>
EntryPlain   == Str(<<"2",","," ","F","i","x"," ","t","y","p","o">>)
NumberOnly   == Str(<<"3",".">>)
BlankLine    == <<32, 0, 32>>

SampleLines ==
    {HeaderA, HeaderB, HeaderBadDay, UnknownDay, UnknownMonth, ApostropheDay,
     EntryMarked, EntryPlain, NumberOnly, BlankLine}

\* The longest input, in lines.
MaxLines == 3

\* The sequences over S of length at most n.
SeqsUpTo(S, n) == UNION {[1..k -> S] : k \in 0..n}

Idle == fin = <<>> /\ fout = <<>> /\ fstep = "idle"

\* Variant of InitParserState that starts with a date and a weekday set.
InitParserState_Dated ==
    /\ cur_date = Some([year |-> 1970, month |-> 1, day |-> 1])
    /\ cur_day = Some(Str(<<"T","h","u","r","s","d","a","y">>))
    /\ rows = <<>>

\* rows = []; cur_date = None; cur_day = None
InitParserState == cur_date = None /\ cur_day = None /\ rows = <<>>

Init ==
    /\ text \in SeqsUpTo(SampleLines, MaxLines)
    /\ idx = 1
    /\ InitParserState
    /\ srcs = <<>>
    /\ pc = "parsing"
    /\ printed = <<>>
    /\ excel = None
    /\ Idle

InLoop == pc = "parsing" /\ idx <= Len(text)

\* if cur_date is None
NoActiveDate == cur_date = None

MainIdle == UNCHANGED <<text, pc, printed, excel, fin, fout, fstep>>

\* line = clean_text(raw_line); if not line: continue
SkipBlank ==
    /\ InLoop
    /\ clean_text(text[idx]) = <<>>
    /\ idx' = idx + 1
    /\ UNCHANGED <<cur_date, cur_day, rows, srcs>>
    /\ MainIdle

\* Variant of HeaderLine that updates the date and forgets the weekday
\* once one is set.
HeaderLine_KeepsDay ==
    /\ InLoop
    /\ \E line \in {clean_text(text[idx])} :
        /\ line # <<>>
        /\ \E hdr \in {parse_header(line)} :
            /\ hdr.kind = "hdr"
            /\ cur_date' = Some(hdr.dt)
            /\ cur_day' = IF cur_day = None THEN Some(hdr.day) ELSE cur_day
    /\ idx' = idx + 1
    /\ UNCHANGED <<rows, srcs>>
    /\ MainIdle

\* hdr = parse_header(line); if hdr: cur_date, cur_day = hdr; continue
HeaderLine ==
    /\ InLoop
    /\ \E line \in {clean_text(text[idx])} :
        /\ line # <<>>
        /\ \E hdr \in {parse_header(line)} :
            /\ hdr.kind = "hdr"
            /\ cur_date' = Some(hdr.dt)
            /\ cur_day' = Some(hdr.day)
    /\ idx' = idx + 1
    /\ UNCHANGED <<rows, srcs>>
    /\ MainIdle

\* date(...) raises ValueError inside parse_header; neither parse_all nor
\* main catches it, so the run ends with the exception.
HeaderRaises ==
    /\ InLoop
    /\ \E line \in {clean_text(text[idx])} :
        /\ line # <<>>
        /\ parse_header(line).kind = "raise"
    /\ pc' = "raised"
    /\ UNCHANGED <<text, idx, cur_date, cur_day, rows, srcs, printed, excel, fin, fout, fstep>>

\* if cur_date is None: continue
SkipNoDate ==
    /\ InLoop
    /\ \E line \in {clean_text(text[idx])} :
        /\ line # <<>>
        /\ parse_header(line).kind = "none"
    /\ NoActiveDate
    /\ idx' = idx + 1
    /\ UNCHANGED <<cur_date, cur_day, rows, srcs>>
    /\ MainIdle

\* Variant of SkipEmptyContent without the "if not content: continue" test:
\* the empty content goes on to the split and a row is appended.
SkipEmptyContent_Emits ==
    /\ InLoop
    /\ ~NoActiveDate
    /\ \E line \in {clean_text(text[idx])} :
        /\ line # <<>>
        /\ parse_header(line).kind = "none"
        /\ StripNumbering(line) = <<>>
    /\ rows' = Append(rows, MakeRow(<<>>, The(cur_date), The(cur_day)))
    /\ srcs' = Append(srcs, idx)
    /\ idx' = idx + 1
    /\ UNCHANGED <<cur_date, cur_day>>
    /\ MainIdle

\* content = m.group(1) if m else line; if not content: continue
SkipEmptyContent ==
    /\ InLoop
    /\ ~NoActiveDate
    /\ \E line \in {clean_text(text[idx])} :
        /\ line # <<>>
        /\ parse_header(line).kind = "none"
        /\ StripNumbering(line) = <<>>
    /\ idx' = idx + 1
    /\ UNCHANGED <<cur_date, cur_day, rows, srcs>>
    /\ MainIdle

\* split, clean, status, rows.append({...})
AppendRow ==
    /\ InLoop
    /\ ~NoActiveDate
    /\ \E line \in {clean_text(text[idx])} :
        /\ line # <<>>
        /\ parse_header(line).kind = "none"
        /\ \E content \in {StripNumbering(line)} :
            /\ content # <<>>
            /\ rows' = Append(rows, MakeRow(content, The(cur_date), The(cur_day)))
    /\ srcs' = Append(srcs, idx)
    /\ idx' = idx + 1
    /\ UNCHANGED <<cur_date, cur_day>>
    /\ MainIdle

\* ------------------------------------------------------------------------
\* main
\* ------------------------------------------------------------------------

MsgTotalRows == "Total rows parsed"
MsgNothingParsed == "Tidak ada baris yang berhasil diparsing. Cek lagi format input."
MsgSaving == "Saving to Excel"
MsgDone == "Done."
MsgPreview == "Preview 10 baris pertama"

Columns == <<"Date", "Day", "Project", "Issue", "Status">>

\* df.applymap(clean_text) on one row
CleanRow(r) == [c \in DOMAIN r |-> clean_text(r[c])]

ParserIdle == UNCHANGED <<text, idx, cur_date, cur_day, rows, srcs, fin, fout, fstep>>

\* return rows; print(f"Total rows parsed: {len(rows)}")
ParseAllReturns ==
    /\ pc = "parsing"
    /\ idx > Len(text)
    /\ pc' = "parsed"
    /\ printed' = Append(printed, MsgTotalRows)
    /\ UNCHANGED excel
    /\ ParserIdle

\* if not rows: print(...); return
MainNothingParsed ==
    /\ pc = "parsed"
    /\ rows = <<>>
    /\ printed' = Append(printed, MsgNothingParsed)
    /\ pc' = "nothing_parsed"
    /\ UNCHANGED excel
    /\ ParserIdle

\* DataFrame(rows, columns=...), applymap(clean_text), print, to_excel,
\* print, and the preview of df.head(10): one print call, made by the try
\* branch or, when to_string raises, by the except branch.
MainSave ==
    /\ pc = "parsed"
    /\ rows # <<>>
    /\ excel' = Some([columns |-> Columns,
                      data    |-> [k \in 1..Len(rows) |-> CleanRow(rows[k])]])
    /\ printed' = printed \o <<MsgSaving, MsgDone, MsgPreview>>
    /\ pc' = "saved"
    /\ ParserIdle

Next ==
    \/ SkipBlank
    \/ HeaderLine
    \/ HeaderRaises
    \/ SkipNoDate
    \/ SkipEmptyContent
    \/ AppendRow
    \/ ParseAllReturns
    \/ MainNothingParsed
    \/ MainSave

Spec == Init /\ [][Next]_vars

\* ------------------------------------------------------------------------
\* clean_text on every short string over one character of each kind
\* ------------------------------------------------------------------------

\* NUL (control), TAB (kept by step 1, not printable), VT (control and
\* whitespace), SPACE, "a", DEL and NO-BREAK SPACE (not printable), and a
\* surrogate.
CleanAlphabet == {0, 9, 11, 32, 97, 127, 160, 55296}

\* The longest string given to clean_text.
MaxCleanLen == 4

\* The parser and main take no step in the pure-function specifications.
ParserOff ==
    /\ text = <<>>
    /\ idx = 1
    /\ InitParserState
    /\ srcs = <<>>
    /\ pc = "off"
    /\ printed = <<>>
    /\ excel = None

RunIdle == UNCHANGED <<text, idx, cur_date, cur_day, rows, srcs, pc, printed, excel>>

InitClean ==
    /\ ParserOff
    /\ fin \in SeqsUpTo(CleanAlphabet, MaxCleanLen)
    /\ fout = <<>>
    /\ fstep = "in"

\* clean_text(s)
CleanOnce ==
    /\ fstep = "in"
    /\ fout' = <<clean_text(fin)>>
    /\ fstep' = "once"
    /\ UNCHANGED fin
    /\ RunIdle

\* clean_text(clean_text(s))
CleanTwice ==
    /\ fstep = "once"
    /\ fout' = Append(fout, clean_text(fout[1]))
    /\ fstep' = "twice"
    /\ UNCHANGED fin
    /\ RunIdle

NextClean == CleanOnce \/ CleanTwice

SpecClean == InitClean /\ [][NextClean]_vars

\* ------------------------------------------------------------------------
\* Entry extraction on every short line over the delimiter and marker
\* characters, under a fixed header
\* ------------------------------------------------------------------------

EntryAlphabet == {Ord("a"), Ord(" "), Ord("-"), Ord(">"), YELLOW, CROSS}

\* The longest line given to entry extraction.
MaxEntryLen == 6

EntryDate == [year |-> 2025, month |-> 12, day |-> 10]
EntryDay == Str(<<"W","e","d","n","e","s","d","a","y">>)

InitEntry ==
    /\ ParserOff
    /\ fin \in SeqsUpTo(EntryAlphabet, MaxEntryLen)
    /\ fout = <<>>
    /\ fstep = "in"

\* The loop body of parse_all on a line that yields no row.
EntrySkipped ==
    /\ fstep = "in"
    /\ \E line \in {clean_text(fin)} :
        \/ line = <<>>
        \/ /\ parse_header(line).kind = "none"
           /\ StripNumbering(line) = <<>>
    /\ fout' = <<>>
    /\ fstep' = "skipped"
    /\ UNCHANGED fin
    /\ RunIdle

\* The loop body of parse_all on a content line: fout keeps the content,
\* the two halves of the split and the appended row.
EntryExtracted ==
    /\ fstep = "in"
    /\ \E line \in {clean_text(fin)} :
        /\ line # <<>>
        /\ parse_header(line).kind = "none"
        /\ \E content \in {StripNumbering(line)} :
            /\ content # <<>>
            /\ fout' = [content |-> content,
                        halves  |-> SplitProjectIssue(content),
                        row     |-> MakeRow(content, EntryDate, EntryDay)]
    /\ fstep' = "out"
    /\ UNCHANGED fin
    /\ RunIdle

NextEntry == EntrySkipped \/ EntryExtracted

SpecEntry == InitEntry /\ [][NextEntry]_vars

\* ------------------------------------------------------------------------
\* parse_header on header lines built from every weekday token
\* ------------------------------------------------------------------------

\* str.upper() of one ASCII character.
UpperChar(c) == IF c \in 97..122 THEN c - 32 ELSE c

\* The spellings of a token: as in the table, upper case, capitalized.
Spellings(tok) ==
    { tok,
      [i \in 1..Len(tok) |-> UpperChar(tok[i])],
      [i \in 1..Len(tok) |-> IF i = 1 THEN UpperChar(tok[i]) ELSE tok[i]] }

WeekdayTokens == {e[1] : e \in day_map}

SampleDays == {Str(<<"1">>), Str(<<"2","8">>)}
SampleMonths == {Str(<<"M","e","i">>), Str(<<"D","E","C">>), Str(<<"f","e","b","r","u","a","r","i">>)}
SampleYear == Str(<<"2","0","2","5">>)

\* '<weekday>[,] <day> <month> <year>'
HeaderLineOf(w, comma, d, mon) ==
    w \o (IF comma THEN <<Comma>> ELSE <<>>) \o <<32>> \o d \o <<32>> \o mon \o <<32>> \o SampleYear

HeaderInputs ==
    UNION { { [token |-> tok, line |-> HeaderLineOf(w, comma, d, mon)] :
                w \in Spellings(tok), comma \in BOOLEAN,
                d \in SampleDays, mon \in SampleMonths } :
            tok \in WeekdayTokens }

InitHeader ==
    /\ ParserOff
    /\ fin \in HeaderInputs
    /\ fout = <<>>
    /\ fstep = "in"

\* parse_header(line)
HeaderParsed ==
    /\ fstep = "in"
    /\ fout' = parse_header(fin.line)
    /\ fstep' = "out"
    /\ UNCHANGED fin
    /\ RunIdle

NextHeader == HeaderParsed

SpecHeader == InitHeader /\ [][NextHeader]_vars

\* ------------------------------------------------------------------------
\* Properties
\* ------------------------------------------------------------------------

\* Line k of the input, sanitized as the loop sanitizes it.
Cleaned(k) == clean_text(text[k])

\* Line k is a recognized header: parse_header returns a (date, weekday).
IsHeaderAt(k) == Cleaned(k) # <<>> /\ parse_header(Cleaned(k)).kind = "hdr"

\* The lines the loop has gone through.
Processed == 1..(idx - 1)

\* The recognized headers before line k.
HeadersBefore(k) == {h \in 1..(k - 1) : IsHeaderAt(h)}

\* The number of rows line k has produced.
RowsFrom(k) == Cardinality({r \in 1..Len(srcs) : srcs[r] = k})

\* Line k has the header shape (header_re matches it).
HeaderShaped(k) == header_re(Strip(Cleaned(k))).matched

\* Line k has the header shape and a weekday or month token outside the tables.
Unresolvable(k) ==
    /\ HeaderShaped(k)
    /\ LET m == header_re(Strip(Cleaned(k)))
       IN  \/ ~HasKey(day_map, Lower(m.dname))
           \/ ~HasKey(month_map, Lower(m.mon_str))

\* Line k has the header shape, both tokens resolve, and the day/month/year
\* is no calendar date.
ImpossibleDate(k) ==
    /\ HeaderShaped(k)
    /\ LET m == header_re(Strip(Cleaned(k)))
       IN  /\ HasKey(day_map, Lower(m.dname))
           /\ HasKey(month_map, Lower(m.mon_str))
           /\ ~ValidDate(ToInt(m.y_str), Get(month_map, Lower(m.mon_str)), ToInt(m.d_str))

\* Line k is a non-empty, non-header line met while a header is active.
Forwarded(k) ==
    /\ Cleaned(k) # <<>>
    /\ parse_header(Cleaned(k)).kind = "none"
    /\ HeadersBefore(k) # {}

\* C1: every row carries the date (as MM/DD/YYYY) and the canonical weekday
\* of the last recognized header line before the line the row comes from.
C1_RowsCarryLatestHeader ==
    \A r \in 1..Len(rows) :
        /\ HeadersBefore(srcs[r]) # {}
        /\ LET hdr == parse_header(Cleaned(Max(HeadersBefore(srcs[r]))))
           IN  /\ rows[r].Date = strftime(hdr.dt)
               /\ rows[r].Day = hdr.day

\* C1 witness: a row that comes after two headers with different weekdays.
C1_Witness ==
    \E r \in 1..Len(rows) :
        \E h1, h2 \in HeadersBefore(srcs[r]) :
            /\ h1 < h2
            /\ parse_header(Cleaned(h1)).day # parse_header(Cleaned(h2)).day

\* C2: as long as no recognized header is among the processed lines, the
\* output is empty, whatever content lines were met.
C2_NoRowsBeforeFirstHeader ==
    (\A k \in Processed : ~IsHeaderAt(k)) => rows = <<>>

\* C2 witness: two content lines have been processed and discarded before
\* any header.
C2_Witness ==
    /\ idx > 2
    /\ \A k \in Processed : ~IsHeaderAt(k)
    /\ \A k \in Processed : Cleaned(k) # <<>> /\ StripNumbering(Cleaned(k)) # <<>>

\* C3, as claimed: a header line with an impossible date does not end the
\* run; the loop goes on to the lines after it.
C3_ImpossibleDateDoesNotAbort ==
    \A k \in 1..Len(text) : (ImpossibleDate(k) /\ idx = k) => pc # "raised"

\* C5, as claimed: every processed line that is non-empty, no header and met
\* under an active header has produced exactly one row.
C5_OneRowPerForwardedLine ==
    \A k \in Processed : Forwarded(k) => RowsFrom(k) = 1

\* C5, amended: a processed line has produced exactly one row when it is
\* non-empty, no header, met under an active header and not empty once its
\* list number is stripped, and no row otherwise; and the run never ends by
\* an exception at such a line.
C5_OneRowPerNonEmptyContent ==
    /\ \A k \in Processed :
          RowsFrom(k) = IF Forwarded(k) /\ StripNumbering(Cleaned(k)) # <<>> THEN 1 ELSE 0
    /\ pc = "raised" => ~Forwarded(idx)

\* C5 witness: under an active header, one line was only a list number and
\* another line produced a row.
C5_Witness ==
    /\ \E k \in Processed : Forwarded(k) /\ StripNumbering(Cleaned(k)) = <<>>
    /\ \E k \in Processed : Forwarded(k) /\ RowsFrom(k) = 1

\* The run is over: main has returned, or the exception has ended it.
RunEnded == pc \in {"nothing_parsed", "saved", "raised"}

\* C6, as claimed: a run that ends with zero rows extracted ends in the
\* "nothing parsed" outcome, with its message printed, and with no table
\* handed to to_excel.
C6_ZeroRowsEndInNothingParsed ==
    (RunEnded /\ rows = <<>>) =>
        /\ pc = "nothing_parsed"
        /\ \E j \in 1..Len(printed) : printed[j] = MsgNothingParsed
        /\ excel = None

\* C6, for the runs in which parse_all returns: with zero rows main ends in
\* the "nothing parsed" outcome, and no table is handed to to_excel while
\* there are no rows.
C6_NothingParsedWhenParseAllReturns ==
    /\ (pc \in {"nothing_parsed", "saved"} /\ rows = <<>>) =>
          /\ pc = "nothing_parsed"
          /\ \E j \in 1..Len(printed) : printed[j] = MsgNothingParsed
    /\ rows = <<>> => excel = None
    /\ pc = "nothing_parsed" => rows = <<>>

\* C10: a step taken at a header-shaped line with an unknown weekday or
\* month token is no error and leaves the current date and weekday as they
\* are; without an active header it adds no row, and with one it adds
\* exactly one row, dated with the active header.
C10_UnresolvableHeaderIsContent ==
    [][ (pc = "parsing" /\ idx <= Len(text) /\ Unresolvable(idx)) =>
          /\ pc' = "parsing"
          /\ idx' = idx + 1
          /\ cur_date' = cur_date
          /\ cur_day' = cur_day
          /\ IF cur_date = None
             THEN rows' = rows
             ELSE /\ Len(rows') = Len(rows) + 1
                  /\ SubSeq(rows', 1, Len(rows)) = rows
                  /\ rows'[Len(rows')].Date = strftime(The(cur_date))
                  /\ rows'[Len(rows')].Day = The(cur_day) ]_vars

\* C10 witness: such a line has been processed before any header and another
\* one under an active header, where it produced a row.
C10_Witness ==
    /\ \E k \in Processed : Unresolvable(k) /\ HeadersBefore(k) = {}
    /\ \E k \in Processed : Unresolvable(k) /\ RowsFrom(k) = 1

\* C9: sanitizing a sanitized string changes nothing.
C9_CleanTextIdempotent ==
    fstep = "twice" => fout[2] = fout[1]

\* C9 witness: a string that the first pass shortened to something non-empty.
C9_Witness ==
    /\ fstep = "twice"
    /\ fout[1] # <<>>
    /\ Len(fout[1]) + 2 <= Len(fin)

\* Delimiter d occurs in s at index k.
OccursAt(s, d, k) == k + Len(d) - 1 <= Len(s) /\ \A j \in 1..Len(d) : s[k + j - 1] = d[j]

\* <<p, i>> is s cut at the first occurrence of d.
CutAtFirst(s, d, p, i) ==
    /\ s = p \o d \o i
    /\ \A k \in 1..Len(p) : ~OccursAt(s, d, k)

\* C8: the content is cut at the first "->" when it holds one anywhere, else
\* at the first " - " when it holds one, else the project half is empty and
\* the issue half is the whole content.
C8_ArrowBeforeDash ==
    fstep = "out" =>
        LET c == fout.content
            p == fout.halves[1]
            i == fout.halves[2]
        IN  IF \E k \in 1..Len(c) : OccursAt(c, Arrow, k)
            THEN CutAtFirst(c, Arrow, p, i)
            ELSE IF \E k \in 1..Len(c) : OccursAt(c, SpaceDash, k)
            THEN CutAtFirst(c, SpaceDash, p, i)
            ELSE p = <<>> /\ i = c

\* C8 witness: a content in which " - " comes before "->".
C8_Witness ==
    /\ fstep = "out"
    /\ \E k1, k2 \in 1..Len(fout.content) :
          /\ k1 < k2
          /\ OccursAt(fout.content, SpaceDash, k1)
          /\ OccursAt(fout.content, Arrow, k2)

IsMarker(c) == c = YELLOW \/ c = CROSS

\* C7: Status is "In Progress" exactly when the issue half holds a marker
\* glyph and "Done" otherwise, and the stored Issue holds no marker glyph.
C7_StatusFromIssueMarkers ==
    fstep = "out" =>
        /\ fout.row.Status =
              IF \E k \in 1..Len(fout.halves[2]) : IsMarker(fout.halves[2][k])
              THEN InProgress ELSE Done
        /\ \A k \in 1..Len(fout.row.Issue) : ~IsMarker(fout.row.Issue[k])

\* C7 witness: an issue half with the cross mark only, and a project half
\* with the yellow circle.
C7_Witness ==
    /\ fstep = "out"
    /\ \E k \in 1..Len(fout.halves[2]) : fout.halves[2][k] = CROSS
    /\ \A k \in 1..Len(fout.halves[2]) : fout.halves[2][k] # YELLOW
    /\ \E k \in 1..Len(fout.halves[1]) : fout.halves[1][k] = YELLOW

\* The canonical weekday the vocabulary gives for each weekday token.
ClaimedWeekday ==
    { <<Str(<<"s","e","n","i","n">>), Str(<<"M","o","n","d","a","y">>)>>,
      <<Str(<<"s","e","l","a","s","a">>), Str(<<"T","u","e","s","d","a","y">>)>>,
      <<Str(<<"s","e","l","e","s","a">>), Str(<<"T","u","e","s","d","a","y">>)>>,
      <<Str(<<"r","a","b","u">>), Str(<<"W","e","d","n","e","s","d","a","y">>)>>,
      <<Str(<<"k","a","m","i","s">>), Str(<<"T","h","u","r","s","d","a","y">>)>>,
      <<Str(<<"k","a","m","i">>), Str(<<"T","h","u","r","s","d","a","y">>)>>,
      <<Str(<<"j","u","m","a","t">>), Str(<<"F","r","i","d","a","y">>)>>,
      <<Str(<<"j","u","m","'","a","t">>), Str(<<"F","r","i","d","a","y">>)>>,
      <<Str(<<"s","a","b","t","u">>), Str(<<"S","a","t","u","r","d","a","y">>)>>,
      <<Str(<<"m","i","n","g","g","u">>), Str(<<"S","u","n","d","a","y">>)>> }

\* C4, as claimed: a header line built from any weekday token of the
\* vocabulary, in any letter case, with or without the comma, is recognized
\* and resolves to the token's canonical weekday.
C4_EveryWeekdayTokenRecognized ==
    fstep = "out" =>
        /\ fout.kind = "hdr"
        /\ fout.day = Get(ClaimedWeekday, fin.token)

\* The same for the tokens made of letters only, which is all of them but
\* "jum'at": header_re admits no apostrophe in the weekday token.
C4_LetterTokensRecognized ==
    (fstep = "out" /\ \A j \in 1..Len(fin.token) : IsHeaderAlpha(fin.token[j])) =>
        /\ fout.kind = "hdr"
        /\ fout.day = Get(ClaimedWeekday, fin.token)

====
